---- MODULE Spec2Model ----
(***************************************************************************)
(* Call-Routing-Project: the interactive route-cost tool.                  *)
(*                                                                         *)
(* Two versions of the program are in the repository: the main solution    *)
(* (loadRouteCosts / getCost / getAllCosts / listFiles) and the earlier    *)
(* go_solution/main.go (loadFile / getCost / getCosts).  Both keep one     *)
(* process-wide map  costs : string -> string  and mutate it only from the *)
(* load menu action.                                                       *)
(*                                                                         *)
(* A Go string is modelled as a sequence of one-character strings; ByteOf  *)
(* gives the byte of a character, so that the comparison  v > row[1]  of   *)
(* two strings is computed byte by byte as Go computes it.                 *)
(*                                                                         *)
(* The file system is the environment: ioutil.ReadDir lists any number of  *)
(* matching files up to MaxFiles, and the file that os.Open opens holds    *)
(* any sequence of lines from the alphabets below.  ReadDir, Open, Mkdir,  *)
(* Create, WriteString and Sync are taken to succeed.                      *)
(***************************************************************************)
EXTENDS Integers, Sequences, FiniteSets, TLC

VARIABLES
    prog,        \* which version of the program is running
    pc,          \* position of the program: menu, open, load, batch, exit, panic, fatal
    costs,       \* the global map costs: prefix string -> cost string
    purpose,     \* filter of the running or latest file operation: "route", "phone"
    persist,     \* argument of getAllCosts / getCosts
    sel,         \* outcome of the latest file selection, until the file is opened
    file,        \* lines of the open file not yet read by the csv reader
    fpr,         \* the csv reader's FieldsPerRecord
    opened,      \* contents of the file opened by the running or latest operation
    out,         \* lines written to the result file (persist) or cost lines printed
    lastLookup,  \* arguments of the Sprintf of the latest single lookup
    costs0,      \* history: the map costs when the running or latest batch began
    inserted,    \* history: the rows <<row[0], row[1]>> that reached the merge
    lastRow,     \* history: the latest row that reached the merge
    pc2,         \* second run (order comparison): position
    prog2,       \* second run: version
    costs2,      \* second run: its map costs
    file2,       \* second run: unread lines
    fpr2,        \* second run: FieldsPerRecord
    inserted2,   \* second run: history of rows that reached the merge
    lastRow2     \* second run: history, the latest row that reached the merge

vars == <<prog, pc, costs, purpose, persist, sel, file, fpr, opened, out,
          lastLookup, costs0, inserted, lastRow, pc2, prog2, costs2, file2, fpr2,
          inserted2, lastRow2>>

run2 == <<pc2, prog2, costs2, file2, fpr2, inserted2, lastRow2>>

----------------------------------------------------------------------------
(* Bounds *)

\* files of one kind that ioutil.ReadDir may list
MaxFiles == 2

\* lines of a route-costs file
MaxRouteLines == 3

\* lines of a phone-numbers file
MaxPhoneLines == 3

\* lines of a route-costs file in the two-run comparison
MaxOrderLines == 2

----------------------------------------------------------------------------
(* Strings *)

DQ == "\""

NL == "\n"

ByteOf(c) ==
    CASE c = NL  -> 10
      [] c = " " -> 32
      [] c = DQ  -> 34
      [] c = "+" -> 43
      [] c = "," -> 44
      [] c = "-" -> 45
      [] c = "." -> 46
      [] c = "0" -> 48
      [] c = "1" -> 49
      [] c = "2" -> 50
      [] c = "3" -> 51
      [] c = "4" -> 52
      [] c = "5" -> 53
      [] c = "6" -> 54
      [] c = "7" -> 55
      [] c = "8" -> 56
      [] c = "9" -> 57
      [] c = ":" -> 58
      [] c = "a" -> 97
      [] c = "b" -> 98
      [] c = "c" -> 99
      [] c = "q" -> 113
      [] c = "x" -> 120

Digits == {"0", "1", "2", "3", "4", "5", "6", "7", "8", "9"}

DigitVal(c) == ByteOf(c) - ByteOf("0")

Range(s) == {s[i] : i \in 1..Len(s)}

\* a shortlex comparison, as a numeric comparison of integers would give
RECURSIVE StrGreaterByLength(_, _)
StrGreaterByLength(a, b) ==
    IF Len(a) # Len(b) THEN Len(a) > Len(b)
    ELSE IF a = <<>> THEN FALSE
    ELSE IF ByteOf(Head(a)) # ByteOf(Head(b)) THEN ByteOf(Head(a)) > ByteOf(Head(b))
    ELSE StrGreaterByLength(Tail(a), Tail(b))

\* Go's  a > b  on strings: byte-wise lexicographic
RECURSIVE StrGreater(_, _)
StrGreater(a, b) ==
    IF a = <<>> THEN FALSE
    ELSE IF b = <<>> THEN TRUE
    ELSE IF ByteOf(Head(a)) # ByteOf(Head(b)) THEN ByteOf(Head(a)) > ByteOf(Head(b))
    ELSE StrGreater(Tail(a), Tail(b))

\* strconv.Atoi: an optional sign, then one or more decimal digits
RECURSIVE DecimalOf(_)
DecimalOf(s) ==
    IF s = <<>> THEN 0
    ELSE DecimalOf(SubSeq(s, 1, Len(s) - 1)) * 10 + DigitVal(s[Len(s)])

Atoi(s) ==
    LET signed == s # <<>> /\ Head(s) \in {"+", "-"}
        body   == IF signed THEN Tail(s) ELSE s
    IN  IF body = <<>> \/ ~(Range(body) \subseteq Digits)
        THEN [err |-> TRUE, val |-> 0]
        ELSE [err |-> FALSE,
              val |-> IF signed /\ Head(s) = "-" THEN 0 - DecimalOf(body)
                      ELSE DecimalOf(body)]

----------------------------------------------------------------------------
(* encoding/csv as the programs use it: csv.NewReader(file), Read() per     *)
(* row, FieldsPerRecord 0, no LazyQuotes.  Modelled for lines in which no   *)
(* field begins with a double quote (no quoted fields in the alphabets).    *)

RECURSIVE SplitComma(_, _, _)
SplitComma(line, cur, acc) ==
    IF line = <<>> THEN Append(acc, cur)
    ELSE IF Head(line) = "," THEN SplitComma(Tail(line), <<>>, Append(acc, cur))
    ELSE SplitComma(Tail(line), Append(cur, Head(line)), acc)

\* one non-blank line: the record, the error, the reader's FieldsPerRecord after it
readRecord(line, n) ==
    LET dst == SplitComma(line, <<>>, <<>>)
    IN  [record |-> dst,
         err    |-> IF DQ \in Range(line) THEN "ErrBareQuote"
                    ELSE IF n > 0 /\ Len(dst) # n THEN "ErrFieldCount"
                    ELSE "nil",
         fpr    |-> IF n = 0 THEN Len(dst) ELSE n]

\* reader.Read(): blank lines are skipped; io.EOF at the end of the file
RECURSIVE Read(_, _)
Read(f, n) ==
    IF f = <<>> THEN [record |-> <<>>, err |-> "EOF", fpr |-> n, rest |-> <<>>]
    ELSE IF Head(f) = <<>> THEN Read(Tail(f), n)
    ELSE LET r == readRecord(Head(f), n)
         IN  [record |-> r.record, err |-> r.err, fpr |-> r.fpr, rest |-> Tail(f)]

----------------------------------------------------------------------------
(* Inputs *)

\* lines a route-costs file may hold:
\*   +1,9   +1,10   +1415,0.02   +1 (one field)   44,abc (no marker, no number)
RouteLines ==
    { <<"+", "1", ",", "9">>,
      <<"+", "1", ",", "1", "0">>,
      <<"+", "1", "4", "1", "5", ",", "0", ".", "0", "2">>,
      <<"+", "1">>,
      <<"4", "4", ",", "a", "b", "c">> }

\* lines a phone-numbers file may hold:
\*   +14152345678   +447911123456   +1415abc   a blank line   +1"4 (bare quote)
PhoneLines ==
    { <<"+", "1", "4", "1", "5", "2", "3", "4", "5", "6", "7", "8">>,
      <<"+", "4", "4", "7", "9", "1", "1", "1", "2", "3", "4", "5", "6">>,
      <<"+", "1", "4", "1", "5", "a", "b", "c">>,
      <<>>,
      <<"+", "1", DQ, "4">> }

\* what the operator may type at "Enter a number with the prefix:"
Queries ==
    { <<"+", "1", "4", "1", "5", "2", "3", "4", "5", "6", "7", "8">>,
      <<"+", "4", "4", "7", "9", "1", "1", "1", "2", "3", "4", "5", "6">>,
      <<"+", "1", "4", "1", "5", "a", "b", "c">>,
      <<>> }

\* what the operator may type at a file menu: q, -1, 0, 1, 2, 3, 4
Choices ==
    { <<"q">>, <<"-", "1">>, <<"0">>, <<"1">>, <<"2">>, <<"3">>, <<"4">> }

SeqsUpTo(S, n) == UNION {[1..k -> S] : k \in 0..n}

RouteFiles == SeqsUpTo(RouteLines, MaxRouteLines)

PhoneFiles == SeqsUpTo(PhoneLines, MaxPhoneLines)

\* the two-run comparison loads the lines whose prefix carries the marker
OrderLines == {l \in RouteLines : Head(l) = "+"}

OrderFiles == SeqsUpTo(OrderLines, MaxOrderLines)

Progs == {"solution", "go_solution"}

----------------------------------------------------------------------------
(* The programs' functions *)

EmptyMap == [k \in {} |-> <<>>]

Put(m, k, v) == [x \in DOMAIN m \cup {k} |-> IF x = k THEN v ELSE m[x]]

\* listFiles, after the listing: n files match the filter, choice was typed
listFiles(n, choice) ==
    LET a == Atoi(choice)
    IN  IF a.err THEN [res |-> "err", index |-> 0]
        ELSE IF a.val < 0 \/ a.val >= n THEN [res |-> "err", index |-> 0]
        ELSE IF a.val - 1 \in 0..(n - 1) THEN [res |-> "ok", index |-> a.val - 1]
        ELSE [res |-> "panic", index |-> a.val - 1]

\* the selection inlined in loadFile and getCosts of go_solution
selectFile(n, choice) ==
    LET a == Atoi(choice)
    IN  IF a.err THEN [res |-> "err", index |-> 0]
        ELSE IF a.val - 1 \in 0..(n - 1) THEN [res |-> "ok", index |-> a.val - 1]
        ELSE [res |-> "panic", index |-> a.val - 1]

\* a merge that always stores the incoming row
mergeRowOverwrite(m, row) == Put(m, row[1], row[2])

\* loadRouteCosts, the body of the loop after a row was read
mergeRow(m, row) ==
    IF (row[1] \in DOMAIN m /\ StrGreater(m[row[1]], row[2])) \/ row[1] \notin DOMAIN m
    THEN Put(m, row[1], row[2])
    ELSE m

\* loadFile of go_solution, the body of the loop after a row was read
mergeRowGo(m, row) ==
    IF (row[1] \in DOMAIN m /\ StrGreater(m[row[1]], row[2])) \/ row[1] \notin DOMAIN m
    THEN Put(m, row[1], row[2])
    ELSE m

\* for i := len(prefix); i >= 0; i-- { if v, ok := costs[prefix[:i]]; ok { result = v } }
RECURSIVE longestLoop(_, _, _, _)
longestLoop(m, prefix, i, result) ==
    IF i < 0 THEN result
    ELSE longestLoop(m, prefix, i - 1,
                     IF SubSeq(prefix, 1, i) \in DOMAIN m
                     THEN m[SubSeq(prefix, 1, i)]
                     ELSE result)

\* getCost of the main solution
getCost(m, prefix) == longestLoop(m, prefix, Len(prefix), <<"0">>)

\* the same loop as written in getCost and getCosts of go_solution
getCostGo(m, input) == longestLoop(m, input, Len(input), <<"0">>)

\* fmt.Sprintf("%s,%s\n", cost, number): the arguments swapped
SprintfSwapped(number, cost) == cost \o <<",">> \o number \o <<NL>>

\* fmt.Sprintf("%s,%s\n", row[0], cost)
SprintfLine(number, cost) == number \o <<",">> \o cost \o <<NL>>

\* fmt.Sprintf("%s : %s", row[0], cost)
SprintfCost(number, cost) == number \o <<" ", ":", " ">> \o cost

\* one pass of the loop of loadRouteCosts over the state st of a run
loadRouteCostsLoop(st) ==
    LET r == Read(st.file, st.fpr)
    IN  IF r.err = "EOF" THEN [st EXCEPT !.pc = "menu", !.file = <<>>]
        ELSE IF r.err # "nil" THEN [st EXCEPT !.pc = "menu", !.file = <<>>]
        ELSE IF Len(r.record) < 2 THEN [st EXCEPT !.pc = "panic", !.file = <<>>]
        ELSE [pc       |-> "load",
              costs    |-> mergeRow(st.costs, r.record),
              file     |-> r.rest,
              fpr      |-> r.fpr,
              inserted |-> st.inserted \cup {<<r.record[1], r.record[2]>>},
              lastRow  |-> <<r.record[1], r.record[2]>>]

\* one pass of the loop of loadFile (go_solution) over the state st of a run
loadFileLoop(st) ==
    LET r == Read(st.file, st.fpr)
    IN  IF r.err = "EOF" THEN [st EXCEPT !.pc = "menu", !.file = <<>>]
        ELSE IF r.err # "nil" THEN [st EXCEPT !.pc = "fatal", !.file = <<>>]
        ELSE IF Len(r.record) < 2 THEN [st EXCEPT !.pc = "panic", !.file = <<>>]
        ELSE [pc       |-> "load",
              costs    |-> mergeRowGo(st.costs, r.record),
              file     |-> r.rest,
              fpr      |-> r.fpr,
              inserted |-> st.inserted \cup {<<r.record[1], r.record[2]>>},
              lastRow  |-> <<r.record[1], r.record[2]>>]

NoSel == [n |-> 0, choice |-> <<>>, res |-> "none"]

NoLookup == [prefix |-> <<>>, result |-> <<>>, asked |-> FALSE]

----------------------------------------------------------------------------
(* The state machine *)

Run2Off ==
    /\ pc2 = "off"
    /\ prog2 = "solution"
    /\ costs2 = EmptyMap
    /\ file2 = <<>>
    /\ fpr2 = 0
    /\ inserted2 = {}
    /\ lastRow2 = <<>>

Init ==
    /\ prog \in Progs
    /\ pc = "menu"
    /\ costs = EmptyMap
    /\ purpose = "none"
    /\ persist = FALSE
    /\ sel = NoSel
    /\ file = <<>>
    /\ fpr = 0
    /\ opened = <<>>
    /\ out = <<>>
    /\ lastLookup = NoLookup
    /\ costs0 = EmptyMap
    /\ inserted = {}
    /\ lastRow = <<>>
    /\ Run2Off

\* a menu action begins: what the previous one showed is gone
Fresh ==
    /\ opened' = <<>>
    /\ out' = <<>>
    /\ lastLookup' = NoLookup
    /\ costs0' = EmptyMap
    /\ lastRow' = <<>>

\* the file selection that begins a load or a batch: r is its outcome
Selected(n, choice, r, filter, p) ==
    /\ sel' = [n |-> n, choice |-> choice, res |-> r.res]
    /\ pc' = CASE r.res = "ok" -> "open"
               [] r.res = "err" -> "menu"
               [] r.res = "panic" -> "panic"
    /\ purpose' = filter
    /\ persist' = p
    /\ Fresh
    /\ UNCHANGED <<prog, costs, file, fpr, inserted, run2>>

\* os.Open of the selected file and csv.NewReader: f is what the file holds
Opened(f, next) ==
    /\ file' = f
    /\ fpr' = 0
    /\ opened' = f
    /\ pc' = next
    /\ sel' = NoSel
    /\ costs0' = IF next = "batch" THEN costs ELSE EmptyMap
    /\ UNCHANGED <<prog, costs, purpose, persist, out, lastLookup, inserted, lastRow,
                   run2>>

\* the state of the first run as the loader loops read it
Run1 ==
    [pc |-> pc, costs |-> costs, file |-> file, fpr |-> fpr, inserted |-> inserted,
     lastRow |-> lastRow]

Run2 ==
    [pc |-> pc2, costs |-> costs2, file |-> file2, fpr |-> fpr2, inserted |-> inserted2,
     lastRow |-> lastRow2]

Loaded(st) ==
    /\ pc' = st.pc
    /\ costs' = st.costs
    /\ file' = st.file
    /\ fpr' = st.fpr
    /\ inserted' = st.inserted
    /\ lastRow' = st.lastRow
    /\ UNCHANGED <<prog, purpose, persist, sel, opened, out, lastLookup, costs0, run2>>

\* one pass of a batch loop: r is what reader.Read() gave, line the formatted result
Resolved(r, onError, line) ==
    /\ IF r.err = "EOF" THEN pc' = "menu" /\ file' = <<>> /\ UNCHANGED <<fpr, out>>
       ELSE IF r.err # "nil" THEN pc' = onError /\ file' = <<>> /\ UNCHANGED <<fpr, out>>
       ELSE pc' = "batch" /\ file' = r.rest /\ fpr' = r.fpr /\ out' = Append(out, line)
    /\ UNCHANGED <<prog, costs, purpose, persist, sel, opened, lastLookup, costs0,
                   inserted, lastRow, run2>>

(* main solution *)

\* menu "1": loadRouteCosts up to the return of listFiles("route")
loadRouteCostsSelect ==
    /\ pc = "menu" /\ prog = "solution"
    /\ \E n \in 0..MaxFiles, choice \in Choices :
           Selected(n, choice, listFiles(n, choice), "route", FALSE)

loadRouteCostsOpen ==
    /\ pc = "open" /\ prog = "solution" /\ purpose = "route"
    /\ \E f \in RouteFiles : Opened(f, "load")

loadRouteCostsRead ==
    /\ pc = "load" /\ prog = "solution"
    /\ Loaded(loadRouteCostsLoop(Run1))

\* menu "2": prompt, getCost, print
lookupCost ==
    /\ pc = "menu" /\ prog = "solution"
    /\ \E prefix \in Queries :
           lastLookup' = [prefix |-> prefix, result |-> getCost(costs, prefix),
                          asked |-> TRUE]
    /\ purpose' = "none" /\ persist' = FALSE /\ sel' = NoSel
    /\ opened' = <<>> /\ out' = <<>> /\ costs0' = EmptyMap /\ lastRow' = <<>>
    /\ UNCHANGED <<prog, pc, costs, file, fpr, inserted, run2>>

\* menu "3" and "4": getAllCosts(persist) up to the return of listFiles("phone")
getAllCostsSelect ==
    /\ pc = "menu" /\ prog = "solution"
    /\ \E n \in 0..MaxFiles, choice \in Choices, p \in BOOLEAN :
           Selected(n, choice, listFiles(n, choice), "phone", p)

getAllCostsOpen ==
    /\ pc = "open" /\ prog = "solution" /\ purpose = "phone"
    /\ \E f \in PhoneFiles : Opened(f, "batch")

getAllCostsRead ==
    /\ pc = "batch" /\ prog = "solution"
    /\ LET r == Read(file, fpr)
           number == r.record[1]
           cost == getCost(costs, number)
       IN  Resolved(r, "menu",
                    IF persist THEN SprintfLine(number, cost)
                    ELSE SprintfCost(number, cost))

(* go_solution *)

loadFileSelect ==
    /\ pc = "menu" /\ prog = "go_solution"
    /\ \E n \in 0..MaxFiles, choice \in Choices :
           Selected(n, choice, selectFile(n, choice), "route", FALSE)

loadFileOpen ==
    /\ pc = "open" /\ prog = "go_solution" /\ purpose = "route"
    /\ \E f \in RouteFiles : Opened(f, "load")

loadFileRead ==
    /\ pc = "load" /\ prog = "go_solution"
    /\ Loaded(loadFileLoop(Run1))

getCostPrompt ==
    /\ pc = "menu" /\ prog = "go_solution"
    /\ \E input \in Queries :
           lastLookup' = [prefix |-> input, result |-> getCostGo(costs, input),
                          asked |-> TRUE]
    /\ purpose' = "none" /\ persist' = FALSE /\ sel' = NoSel
    /\ opened' = <<>> /\ out' = <<>> /\ costs0' = EmptyMap /\ lastRow' = <<>>
    /\ UNCHANGED <<prog, pc, costs, file, fpr, inserted, run2>>

getCostsSelect ==
    /\ pc = "menu" /\ prog = "go_solution"
    /\ \E n \in 0..MaxFiles, choice \in Choices, p \in BOOLEAN :
           Selected(n, choice, selectFile(n, choice), "phone", p)

getCostsOpen ==
    /\ pc = "open" /\ prog = "go_solution" /\ purpose = "phone"
    /\ \E f \in PhoneFiles : Opened(f, "batch")

getCostsRead ==
    /\ pc = "batch" /\ prog = "go_solution"
    /\ LET r == Read(file, fpr)
           number == r.record[1]
           result == getCostGo(costs, number)
       IN  Resolved(r, "fatal",
                    IF persist THEN SprintfLine(number, result)
                    ELSE SprintfCost(number, result))

(* both *)

\* menu "5"
exitMenu ==
    /\ pc = "menu"
    /\ pc' = "exit"
    /\ UNCHANGED <<prog, costs, purpose, persist, sel, file, fpr, opened, out,
                   lastLookup, costs0, inserted, lastRow, run2>>

\* any other menu input: "Invalid input!", and the menu again
invalidInput ==
    /\ pc = "menu"
    /\ UNCHANGED vars

Next ==
    \/ loadRouteCostsSelect
    \/ loadRouteCostsOpen
    \/ loadRouteCostsRead
    \/ lookupCost
    \/ getAllCostsSelect
    \/ getAllCostsOpen
    \/ getAllCostsRead
    \/ loadFileSelect
    \/ loadFileOpen
    \/ loadFileRead
    \/ getCostPrompt
    \/ getCostsSelect
    \/ getCostsOpen
    \/ getCostsRead
    \/ exitMenu
    \/ invalidInput

Spec == Init /\ [][Next]_vars

----------------------------------------------------------------------------
(* Two runs side by side: the first loads with loadRouteCosts, the second   *)
(* with either loader, each any number of files one after the other.  The   *)
(* runs share nothing, so only one of them has a file open at a time.       *)

InitOrder ==
    /\ prog = "solution"
    /\ pc = "menu"
    /\ costs = EmptyMap
    /\ purpose = "route"
    /\ persist = FALSE
    /\ sel = NoSel
    /\ file = <<>>
    /\ fpr = 0
    /\ opened = <<>>
    /\ out = <<>>
    /\ lastLookup = NoLookup
    /\ costs0 = EmptyMap
    /\ inserted = {}
    /\ lastRow = <<>>
    /\ pc2 = "menu"
    /\ prog2 \in Progs
    /\ costs2 = EmptyMap
    /\ file2 = <<>>
    /\ fpr2 = 0
    /\ inserted2 = {}
    /\ lastRow2 = <<>>

orderOpen1 ==
    /\ pc = "menu" /\ pc2 # "load"
    /\ \E f \in OrderFiles : file' = f
    /\ fpr' = 0
    /\ pc' = "load"
    /\ UNCHANGED <<prog, costs, purpose, persist, sel, opened, out, lastLookup,
                   costs0, inserted, lastRow, run2>>

orderOpen2 ==
    /\ pc2 = "menu" /\ pc # "load"
    /\ \E f \in OrderFiles : file2' = f
    /\ fpr2' = 0
    /\ pc2' = "load"
    /\ UNCHANGED <<prog, pc, costs, purpose, persist, sel, file, fpr, opened, out,
                   lastLookup, costs0, inserted, lastRow, prog2, costs2, inserted2,
                   lastRow2>>

orderRead2 ==
    /\ pc2 = "load"
    /\ LET st == IF prog2 = "solution" THEN loadRouteCostsLoop(Run2)
                 ELSE loadFileLoop(Run2)
       IN  /\ pc2' = st.pc
           /\ costs2' = st.costs
           /\ file2' = st.file
           /\ fpr2' = st.fpr
           /\ inserted2' = st.inserted
           /\ lastRow2' = st.lastRow
    /\ UNCHANGED <<prog, pc, costs, purpose, persist, sel, file, fpr, opened, out,
                   lastLookup, costs0, inserted, lastRow, prog2>>

NextOrder ==
    \/ orderOpen1
    \/ loadRouteCostsRead
    \/ orderOpen2
    \/ orderRead2

SpecOrder == InitOrder /\ [][NextOrder]_vars

----------------------------------------------------------------------------
(* What the claims speak of *)

IsPrefixOf(p, q) == Len(p) <= Len(q) /\ SubSeq(q, 1, Len(p)) = p

\* the keys of m that are non-empty prefixes of q
KeysMatching(m, q) == {p \in DOMAIN m : p # <<>> /\ IsPrefixOf(p, q)}

\* the cost of the longest key that is a prefix of q, the sentinel if there is none
LongestPrefixCost(m, q) ==
    IF KeysMatching(m, q) = {} THEN <<"0">>
    ELSE m[CHOOSE p \in KeysMatching(m, q) : \A r \in KeysMatching(m, q) : Len(r) <= Len(p)]

\* a non-negative decimal literal: digits, optionally a point and more digits
IsDecimal(s) ==
    /\ s # <<>>
    /\ Range(s) \subseteq Digits \cup {"."}
    /\ Cardinality({i \in 1..Len(s) : s[i] = "."}) <= 1
    /\ s[1] # "." /\ s[Len(s)] # "."

\* the value of a decimal literal, in hundredths
NumVal(s) ==
    LET dot == IF "." \in Range(s) THEN CHOOSE i \in 1..Len(s) : s[i] = "." ELSE Len(s) + 1
        whole == SubSeq(s, 1, dot - 1)
        frac == SubSeq(SubSeq(s, dot + 1, Len(s)) \o <<"0", "0">>, 1, 2)
    IN  DecimalOf(whole) * 100 + DecimalOf(frac)

\* byte-wise lexicographic order, stated on positions
LexLess(a, b) ==
    \E k \in 0..Len(a) :
        /\ k <= Len(b)
        /\ \A i \in 1..k : a[i] = b[i]
        /\ \/ k = Len(a) /\ k < Len(b)
           \/ k < Len(a) /\ k < Len(b) /\ ByteOf(a[k + 1]) < ByteOf(b[k + 1])

\* '+' followed by digits
WellFormedPrefix(p) == p # <<>> /\ Head(p) = "+" /\ Range(Tail(p)) \subseteq Digits

WellFormedRow(r) == WellFormedPrefix(r[1]) /\ IsDecimal(r[2])

WellFormedLine(l) ==
    LET row == SplitComma(l, <<>>, <<>>) IN Len(row) = 2 /\ WellFormedRow(row)

\* empty, or a character that is neither the leading '+' nor a digit
MalformedQuery(q) ==
    q = <<>> \/ \E i \in 1..Len(q) : ~(q[i] \in Digits \/ (i = 1 /\ q[i] = "+"))

\* the costs inserted for prefix p
CostsFor(ins, p) == {r[2] : r \in {x \in ins : x[1] = p}}

\* the numbers the csv reader yields from file f, and whether every line read
RECURSIVE ReadAll(_, _, _)
ReadAll(f, n, acc) ==
    LET r == Read(f, n)
    IN  IF r.err = "EOF" THEN [ok |-> TRUE, numbers |-> acc]
        ELSE IF r.err # "nil" THEN [ok |-> FALSE, numbers |-> acc]
        ELSE ReadAll(r.rest, r.fpr, Append(acc, r.record[1]))

LoadEnded == purpose = "route" /\ sel.res = "none" /\ pc \in {"menu", "panic", "fatal"}

BatchEnded == purpose = "phone" /\ sel.res = "none" /\ pc \in {"menu", "fatal"}

Plus1 == <<"+", "1">>

Nine == <<"9">>

Ten == <<"1", "0">>

----------------------------------------------------------------------------
(* The claims *)

\* C1: a single lookup returns the cost stored for the longest non-empty prefix
\* of the query that is a key of the index, and the sentinel "0" if there is none.
C1_LongestPrefix ==
    lastLookup.asked =>
        lastLookup.result = LongestPrefixCost(costs, lastLookup.prefix)

\* C2: the cost stored for each prefix is the numeric minimum of all the costs
\* ever inserted for it.
C2_NumericMinimum ==
    \A p \in DOMAIN costs :
        (\A c \in CostsFor(inserted, p) : IsDecimal(c)) =>
            \A c \in CostsFor(inserted, p) : NumVal(costs[p]) <= NumVal(c)

\* C3: two runs of loadRouteCosts that have loaded the same set of records, in
\* whatever order, multiplicity and split over files, hold the same index and
\* answer every query alike.
C3_OrderIndependent ==
    (prog2 = "solution" /\ inserted = inserted2) =>
        /\ costs = costs2
        /\ \A q \in Queries : getCost(costs, q) = getCost(costs2, q)

\* the two runs loaded +1,9 and +1,10 (and maybe more), the first ending with
\* +1,9 and the second with +1,10
C3_Witness ==
    /\ prog2 = "solution" /\ pc = "menu" /\ pc2 = "menu"
    /\ inserted = inserted2
    /\ {<<Plus1, Nine>>, <<Plus1, Ten>>} \subseteq inserted
    /\ lastRow = <<Plus1, Nine>>
    /\ lastRow2 = <<Plus1, Ten>>

\* C4: no step removes a key, and no step raises, numerically, the cost stored
\* for a key.
C4_Monotone ==
    [][\A p \in DOMAIN costs :
           /\ p \in DOMAIN costs'
           /\ (IsDecimal(costs[p]) /\ IsDecimal(costs'[p])) =>
                  NumVal(costs'[p]) <= NumVal(costs[p])]_vars

\* C5: on an index built only from well-formed records, the lookup of a
\* malformed query returns the sentinel "0".
C5_MalformedQuery ==
    (/\ lastLookup.asked
     /\ MalformedQuery(lastLookup.prefix)
     /\ \A r \in inserted : WellFormedRow(r))
        => lastLookup.result = <<"0">>

\* C6: a malformed record never reaches the index, and when a load has ended
\* every well-formed record of the file is in the index, also those that follow
\* a malformed one.
C6_MalformedRejected ==
    /\ \A r \in inserted : WellFormedRow(r)
    /\ LoadEnded =>
           \A i \in 1..Len(opened) :
               WellFormedLine(opened[i]) =>
                   /\ SplitComma(opened[i], <<>>, <<>>) \in inserted
                   /\ SplitComma(opened[i], <<>>, <<>>)[1] \in DOMAIN costs

C8_BadLineDoesNotAbort ==
    BatchEnded =>
        \A i \in 1..Len(opened) :
            (opened[i] # <<>> /\ DQ \notin Range(opened[i])) =>
                \E j \in 1..Len(out) :
                    IsPrefixOf(SplitComma(opened[i], <<>>, <<>>)[1], out[j])

\* C9: listFiles accepts the selection exactly when it is a number in
\* 1..len(files), and never indexes files out of bounds.
C9_SelectionInRange ==
    (prog = "solution" /\ sel.res # "none") =>
        /\ sel.res # "panic"
        /\ sel.res = "ok" <=>
               (~Atoi(sel.choice).err /\ Atoi(sel.choice).val \in 1..sel.n)

====
